---- MODULE Spec2Model ----
(***************************************************************************)
(* IntelligentHub: the entity-span masking of qa_engine.py, the manifest   *)
(* comparison of app.py, and the hub lifecycle (rebuild, save, load,       *)
(* query, clear, SharePoint sync and its auto-sync loop) of app.py.        *)
(*                                                                         *)
(* Four specifications share the module:                                   *)
(*   SpecMask      _apply_span_masks applied to bounded span lists         *)
(*   SpecPattern   pattern step 7 of _mask_patterns on bounded texts       *)
(*   SpecManifest  build_manifest / manifests_equal on bounded file lists  *)
(*   Spec          one Streamlit session working on the persisted hubs     *)
(***************************************************************************)
EXTENDS Integers, Sequences, FiniteSets, TLC

\* ------------------------------------------------------------------------
\* Bounds of the model
\* ------------------------------------------------------------------------
MaxSpans == 3
MaxFiles == 3
MaxTurns == 1
MaxWords == 4

\* ------------------------------------------------------------------------
\* Python's None and a present value, both as sequences so that TLC can
\* compare them.
\* ------------------------------------------------------------------------
None == <<>>
Some(x) == <<x>>

\* What the page shows after a handler (st.success, st.error, st.info):
\* the hub concerned ("-" when none) and the outcome.
Report(name, result) == [hub |-> name, result |-> result]

\* ========================================================================
\* qa_engine.py: _apply_span_masks
\* ========================================================================

\* The text whose spans are masked; characters are kept distinct so that
\* two different slicings never give the same output by accident.
Text == <<"a", "b">>
TextLen == Len(Text)

\* Labels of the spans the model feeds in, out of the six sanitize_text
\* collects (ORG and LOC are left to the maps below): PERSON, GPE, both
\* members of the priority-1 tie, whose placeholders differ, and DATE, a
\* label the maps do not know.
InputLabels == {"PERSON", "GPE", "NORP", "PRODUCT", "DATE"}

\* A span {start, end, label} with 0 <= start <= end <= len(text).
SpanSet ==
  {s \in [start : 0..TextLen, end : 0..TextLen, label : InputLabels] :
     s.start <= s.end}

\* label_priority.get(label, 0)
label_priority(l) ==
  CASE l = "PERSON" -> 4
    [] l = "ORG" -> 3
    [] l = "GPE" -> 2
    [] l = "LOC" -> 2
    [] l = "NORP" -> 1
    [] l = "PRODUCT" -> 1
    [] OTHER -> 0

\* label_map.get(label, "[ENTITY]")
label_map(l) ==
  CASE l = "PERSON" -> "[PERSON]"
    [] l = "ORG" -> "[ORG]"
    [] l = "GPE" -> "[LOCATION]"
    [] l = "LOC" -> "[LOCATION]"
    [] l = "NORP" -> "[AFFILIATION]"
    [] l = "PRODUCT" -> "[PRODUCT]"
    [] OTHER -> "[ENTITY]"

\* The sort key (start, end) compared as Python compares tuples.
KeyLess(a, b) ==
  a.start < b.start \/ (a.start = b.start /\ a.end < b.end)

RECURSIVE InsertByKey(_, _)
\* s placed after every element whose key is not greater: a stable sort.
InsertByKey(s, L) ==
  IF L = <<>> THEN <<s>>
  ELSE IF KeyLess(s, Head(L)) THEN <<s>> \o L
  ELSE <<Head(L)>> \o InsertByKey(s, Tail(L))

RECURSIVE SortedSpans(_)
\* sorted(spans, key=lambda s: (s["start"], s["end"])): stable, so spans of
\* equal key keep the order of the input list.
SortedSpans(L) ==
  IF L = <<>> THEN <<>>
  ELSE InsertByKey(L[Len(L)], SortedSpans(SubSeq(L, 1, Len(L) - 1)))

\* The overlap test of the merge walk: a span that starts where the
\* running span ends is merged too.  (MergeTestStrict is the variant that
\* leaves adjacent spans apart.)
MergeTestStrict(s, prev) == s.start < prev.end
Overlaps(s, prev) == s.start <= prev.end

\* The label the merged span keeps when s is merged into prev: replaced
\* only by a label of strictly higher priority.  (MergedLabelTiesLater is
\* the variant in which a label of equal priority replaces it too.)
MergedLabelTiesLater(s, prev) ==
  IF label_priority(s.label) >= label_priority(prev.label)
  THEN s.label ELSE prev.label
MergedLabel(s, prev) ==
  IF label_priority(s.label) > label_priority(prev.label)
  THEN s.label ELSE prev.label

Max(a, b) == IF a >= b THEN a ELSE b

RECURSIVE MergeWalk(_, _, _)
\* The for loop over the sorted spans; prev is None or Some(span).
MergeWalk(rest, prev, merged) ==
  IF rest = <<>>
  THEN IF prev = None THEN merged ELSE Append(merged, prev[1])
  ELSE LET s == Head(rest) IN
       IF prev = None THEN MergeWalk(Tail(rest), Some(s), merged)
       ELSE IF Overlaps(s, prev[1])
            THEN MergeWalk(
                   Tail(rest),
                   Some([start |-> prev[1].start,
                         end |-> Max(prev[1].end, s.end),
                         label |-> MergedLabel(s, prev[1])]),
                   merged)
            ELSE MergeWalk(Tail(rest), Some(s), Append(merged, prev[1]))

MergeSpans(L) == MergeWalk(SortedSpans(L), None, <<>>)

\* text[a:b] of Python: 0-based, end exclusive.
Slice(text, a, b) == SubSeq(text, a + 1, b)

RECURSIVE Rewrite(_, _, _, _)
\* The rewriting loop: unspanned text copied, each merged span replaced by
\* its placeholder; the output is a sequence of characters and placeholders.
Rewrite(text, merged, last_idx, out) ==
  IF merged = <<>> THEN out \o Slice(text, last_idx, Len(text))
  ELSE LET s == Head(merged)
           copied == IF last_idx < s.start
                     THEN out \o Slice(text, last_idx, s.start)
                     ELSE out
       IN Rewrite(text, Tail(merged), s.end,
                  Append(copied, label_map(s.label)))

_apply_span_masks(text, L) == Rewrite(text, MergeSpans(L), 0, <<>>)

\* ========================================================================
\* app.py: build_manifest, manifests_equal
\* ========================================================================

\* Remote file identities and change fingerprints (eTags).
FileIds == {"f1", "f2"}
Etags == {"e1", "e2"}

\* A file as collect_files_recursively_from_item lists it; name, size,
\* lastModifiedDateTime and downloadUrl take no part in any comparison and
\* are left out.
FileSet == [id : FileIds, etag : Etags]

\* The index of the last file of F whose id is k.
LastIndexOf(F, k) ==
  CHOOSE i \in 1..Len(F) :
    F[i].id = k /\ \A j \in (i + 1)..Len(F) : F[j].id # k

\* {f.get("id"): f.get("etag") for f in files}: a later file of the same
\* id overwrites an earlier one.
ManifestMap(F) ==
  [k \in {F[i].id : i \in 1..Len(F)} |-> F[LastIndexOf(F, k)].etag]

build_manifest(F) ==
  [files |-> F, map |-> ManifestMap(F), count |-> Len(F)]

manifests_equal(a, b) == a.map = b.map /\ a.count = b.count

\* F with the etag of its i-th file set to e.
WithEtag(F, i, e) ==
  [j \in 1..Len(F) |-> IF j = i THEN [id |-> F[j].id, etag |-> e] ELSE F[j]]

\* ========================================================================
\* app.py and qa_engine.py: hubs on disk and the session
\* ========================================================================

\* Hub names (directories under PERSIST_DIR).
Hubs == {"h1", "h2"}

\* Documents a user uploads: "blank" yields no text, "doc" is a copy of
\* the remote file in its first revision.
Uploads == {"blank", "doc"}

\* The file behind the SharePoint link, in its two revisions.
RemoteFiles == [id : {"f1"}, etag : Etags]

\* What the link lists: the file, in one of its revisions.
RemoteLists == {<<f>> : f \in RemoteFiles}

\* A text is the sequence of the documents it was extracted from; the
\* empty sequence is the empty string.
\* get_raw_text of an uploaded document.
UploadText(u) ==
  IF u = "blank" THEN <<>> ELSE <<[id |-> "f1", etag |-> "e1"]>>

\* download_and_extract_text: the text of every listed file, in order.
download_and_extract_text(F) == F

\* A directory under PERSIST_DIR: whether it exists, the two files FAISS
\* writes into it (each None or Some(text the index was built from)) and
\* manifest.json (None or Some(manifest)).
NoDir == [dir |-> FALSE, faiss |-> None, pkl |-> None, manifest |-> None]

\* The in-memory vector store built from a text.
IndexOf(text) == [faiss |-> text, pkl |-> text]

\* build_qa_engine(raw_text=text) raises on an empty text (ValueError) and
\* when sanitizing, chunking or the embedding provider fails (ok = FALSE).
BuildSucceeds(text, ok) == text # <<>> /\ ok

\* Where a save_vectorstore may stop: os.makedirs is done first, then
\* save_local writes the index file and then the docstore file.
SaveStops == {"after_makedirs", "after_index_file", "complete"}

\* How a rebuild may go: the build raises, or the save stops somewhere.
BuildFates == {"build_fails"} \cup SaveStops
BuildOk(fate) == fate # "build_fails"

\* How a remote sync may go: a request raises, or as a rebuild goes.
SyncFates == {"fetch_fails"} \cup BuildFates

\* save_vectorstore(vectorstore, PERSIST_DIR, cache_name) on the directory
\* d, stopping at stop.
save_vectorstore(d, idx, stop) ==
  LET made == [d EXCEPT !.dir = TRUE]
      half == [made EXCEPT !.faiss = Some(idx.faiss)]
  IN CASE stop = "after_makedirs" -> made
       [] stop = "after_index_file" -> half
       [] OTHER -> [half EXCEPT !.pkl = Some(idx.pkl)]

\* load_vectorstore on the directory d: None when there is no directory,
\* else what FAISS.load_local gives: it raises when a file is missing and
\* otherwise returns the index the two files hold.  (load_vectorstoreNoDirTest
\* is the variant without the os.path.isdir test.)
load_vectorstoreNoDirTest(d) ==
  IF d.faiss = None \/ d.pkl = None
  THEN [raised |-> TRUE, value |-> None]
  ELSE [raised |-> FALSE,
        value |-> Some([faiss |-> d.faiss[1], pkl |-> d.pkl[1]])]
load_vectorstore(d) ==
  IF ~d.dir THEN [raised |-> FALSE, value |-> None]
  ELSE IF d.faiss = None \/ d.pkl = None
       THEN [raised |-> TRUE, value |-> None]
       ELSE [raised |-> FALSE,
             value |-> Some([faiss |-> d.faiss[1], pkl |-> d.pkl[1]])]

\* The session's qa chain: the vector store it retrieves from and the hub
\* name it was built or loaded under.
Engine(name, idx) == [hub |-> name, index |-> idx]

\* rebuild_vectorstore_and_save(cache_name, raw_text): what it returns to
\* the page (it swallows every exception).
RebuildResult(text, ok, stop) ==
  IF ~BuildSucceeds(text, ok) THEN "build_failed"
  ELSE IF stop # "complete" THEN "save_failed"
  ELSE "saved"

\* The hub directory after rebuild_vectorstore_and_save.
\* (RebuildDirClearedFirst is the variant that empties the directory before
\* it builds.)
RebuildDirClearedFirst(d, text, ok, stop) ==
  IF BuildSucceeds(text, ok)
  THEN save_vectorstore(d, IndexOf(text), stop)
  ELSE [d EXCEPT !.dir = TRUE, !.faiss = None, !.pkl = None]
RebuildDir(d, text, ok, stop) ==
  IF BuildSucceeds(text, ok)
  THEN save_vectorstore(d, IndexOf(text), stop)
  ELSE d

\* The session's (qa, current_cache_name) after rebuild_vectorstore_and_save.
RebuildSession(sess, name, text, ok, stop) ==
  IF RebuildResult(text, ok, stop) = "saved"
  THEN [qa |-> Some(Engine(name, IndexOf(text))), name |-> Some(name)]
  ELSE sess

\* load_cache_into_memory(name): its outcome; engineOk is whether
\* build_qa_engine(load_vectorstore_obj=...) returns.
LoadResult(d, engineOk) ==
  LET vs == load_vectorstore(d) IN
  IF vs.raised THEN "load_raised"
  ELSE IF vs.value = None THEN "not_found"
  ELSE IF ~engineOk THEN "engine_failed"
  ELSE "loaded"

\* Its return value.
LoadReturns(d, engineOk) == LoadResult(d, engineOk) = "loaded"

\* The session's (qa, current_cache_name) after load_cache_into_memory.
\* (LoadSessionKeepsName is the variant that sets qa only.)
LoadSessionKeepsName(sess, name, d, engineOk) ==
  IF LoadReturns(d, engineOk)
  THEN [qa |-> Some(Engine(name, load_vectorstore(d).value[1])),
        name |-> sess.name]
  ELSE sess
LoadSession(sess, name, d, engineOk) ==
  IF LoadReturns(d, engineOk)
  THEN [qa |-> Some(Engine(name, load_vectorstore(d).value[1])),
        name |-> Some(name)]
  ELSE sess

\* The hub directory after load_cache_into_memory: a minimal manifest is
\* written when the hub was loaded and has none.
LoadDir(d, engineOk) ==
  IF LoadReturns(d, engineOk) /\ d.manifest = None
  THEN [d EXCEPT !.manifest = Some(build_manifest(<<>>))]
  ELSE d

\* manifest.json written into the hub directory; os.makedirs of its
\* directory comes first.
WriteManifest(d, m) == [d EXCEPT !.dir = TRUE, !.manifest = Some(m)]

\* page_chat on a query: st.session_state.qa({"query": q}) is a call of
\* None when no hub is loaded, which raises before anything is retrieved
\* ("no_engine"); with an engine the chain retrieves and calls the
\* completion provider, which answers or raises.  (QueryResultUnguarded is
\* the variant in which the call goes through without an engine.)
QueryResultUnguarded(qa, providerOk) ==
  IF providerOk THEN "answered" ELSE "provider_error"
QueryResult(qa, providerOk) ==
  IF qa = None THEN "no_engine"
  ELSE IF providerOk THEN "answered" ELSE "provider_error"

\* The chat transcript after the query.
QueryHistory(hist, qa, q, providerOk) ==
  IF QueryResult(qa, providerOk) = "answered"
  THEN Append(hist, [question |-> q, answer |-> "a"])
  ELSE hist

\* list_caches(): the names of the directories under PERSIST_DIR.
list_caches(d) == {h \in Hubs : d[h].dir}

\* ------------------------------------------------------------------------
\* _mask_patterns, pattern step 7 (qa_engine.py lines 70-76): the text is a
\* sequence of one-character strings; positions are Python's, 0-based.
\* ------------------------------------------------------------------------
UpperLetters ==
  <<"A", "B", "C", "D", "E", "F", "G", "H", "I", "J", "K", "L", "M",
    "N", "O", "P", "Q", "R", "S", "T", "U", "V", "W", "X", "Y", "Z">>
LowerLetters ==
  <<"a", "b", "c", "d", "e", "f", "g", "h", "i", "j", "k", "l", "m",
    "n", "o", "p", "q", "r", "s", "t", "u", "v", "w", "x", "y", "z">>
Digits == {"0", "1", "2", "3", "4", "5", "6", "7", "8", "9"}

IsUpper(c) == \E i \in 1..26 : UpperLetters[i] = c
IsLower(c) == \E i \in 1..26 : LowerLetters[i] = c

\* The case folding re.IGNORECASE applies to a character.
Lower(c) ==
  IF IsUpper(c)
  THEN LowerLetters[CHOOSE i \in 1..26 : UpperLetters[i] = c]
  ELSE c

\* \w, \s and the class [\w&().\-] of the pattern.
IsWordChar(c) == IsUpper(c) \/ IsLower(c) \/ c \in Digits \/ c = "_"
IsSpace(c) == c \in {" ", "\t", "\n"}
IsPhraseChar(c) == IsWordChar(c) \/ c \in {"&", "(", ")", ".", "-"}

\* [A-Z] as the pattern is compiled, with flags=re.IGNORECASE: the class is
\* matched on the folded character, so a lowercase letter matches too.
MatchesCapitalClass(c) == Lower(c) \in {LowerLetters[i] : i \in 1..26}

\* The alternatives of the keyword group and of (?:for|with), in the order
\* of the pattern.
Keywords ==
  <<<<"p", "r", "o", "j", "e", "c", "t">>,
    <<"p", "r", "o", "g", "r", "a", "m", "m", "e">>,
    <<"p", "r", "o", "g", "r", "a", "m">>,
    <<"c", "l", "i", "e", "n", "t">>,
    <<"c", "u", "s", "t", "o", "m", "e", "r">>,
    <<"e", "n", "g", "a", "g", "e", "m", "e", "n", "t">>,
    <<"c", "o", "n", "t", "r", "a", "c", "t">>>>
Prepositions == <<<<"f", "o", "r">>, <<"w", "i", "t", "h">>>>

\* The literal lit matches at position p, case folded.
LiteralAt(text, p, lit) ==
  /\ p + Len(lit) <= Len(text)
  /\ \A i \in 1..Len(lit) : Lower(text[p + i]) = lit[i]

\* \b at position p: a word character on exactly one side.
WordBoundaryAt(text, p) ==
  (p > 0 /\ IsWordChar(text[p])) # (p < Len(text) /\ IsWordChar(text[p + 1]))

RECURSIVE SpacesEnd(_, _)
\* The end of the longest run of whitespace that starts at p (\s+ is
\* greedy; the run is empty when the result is p).
SpacesEnd(text, p) ==
  IF p < Len(text) /\ IsSpace(text[p + 1]) THEN SpacesEnd(text, p + 1) ELSE p

RECURSIVE PhraseCharsEnd(_, _)
\* The end of the longest run of [\w&().\-] that starts at p.
PhraseCharsEnd(text, p) ==
  IF p < Len(text) /\ IsPhraseChar(text[p + 1])
  THEN PhraseCharsEnd(text, p + 1) ELSE p

\* [A-Z][\w&().\-]+ at position p: None, or Some of the end of the word.
WordAt(text, p) ==
  IF /\ p < Len(text)
     /\ MatchesCapitalClass(text[p + 1])
     /\ PhraseCharsEnd(text, p + 1) > p + 1
  THEN Some(PhraseCharsEnd(text, p + 1))
  ELSE None

RECURSIVE MoreWords(_, _, _)
\* (?:\s+[A-Z][\w&().\-]+){0,n} after a word that ends at e: the end of the
\* captured phrase.
MoreWords(text, e, n) ==
  IF n = 0 THEN e
  ELSE LET s == SpacesEnd(text, e) IN
       IF s > e /\ WordAt(text, s) # None
       THEN MoreWords(text, WordAt(text, s)[1], n - 1)
       ELSE e

\* What follows the keyword that ends at p: \s+(?:for|with)\s+ and the
\* captured phrase.  None, or Some of where group 1 starts and ends.
AfterKeyword(text, p) ==
  LET s1 == SpacesEnd(text, p)
      preps == {i \in 1..Len(Prepositions) :
                  LiteralAt(text, s1, Prepositions[i])}
  IN IF s1 = p \/ preps = {} THEN None
     ELSE LET prep == Prepositions[CHOOSE i \in preps :
                                     \A j \in preps : i <= j]
              s2 == SpacesEnd(text, s1 + Len(prep))
          IN IF s2 = s1 + Len(prep) \/ WordAt(text, s2) = None THEN None
             ELSE Some([cap |-> s2,
                        end |-> MoreWords(text, WordAt(text, s2)[1], 4)])

\* The match of the whole pattern that starts at position p, if there is
\* one: where it starts, where group 1 starts, where both end.
MatchAt(text, p) ==
  LET ks == {i \in 1..Len(Keywords) :
               /\ LiteralAt(text, p, Keywords[i])
               /\ AfterKeyword(text, p + Len(Keywords[i])) # None}
  IN IF ~WordBoundaryAt(text, p) \/ ks = {} THEN None
     ELSE LET k == Keywords[CHOOSE i \in ks : \A j \in ks : i <= j]
              a == AfterKeyword(text, p + Len(k))[1]
          IN Some([start |-> p, cap |-> a.cap, end |-> a.end])

RECURSIVE Matches(_, _)
\* The matches re.sub finds from position p on: leftmost first, the search
\* resumed where the match ended.
Matches(text, p) ==
  IF p >= Len(text) THEN <<>>
  ELSE IF MatchAt(text, p) = None THEN Matches(text, p + 1)
       ELSE <<MatchAt(text, p)[1]>> \o Matches(text, MatchAt(text, p)[1].end)

RECURSIVE ReplaceAll(_, _)
\* re.sub(re.escape(needle), "[ENTITY]", hay): every occurrence of the
\* needle in hay, compared as it is written, becomes the placeholder.
ReplaceAll(hay, needle) ==
  IF Len(hay) < Len(needle) THEN hay
  ELSE IF SubSeq(hay, 1, Len(needle)) = needle
       THEN <<"[ENTITY]">>
              \o ReplaceAll(SubSeq(hay, Len(needle) + 1, Len(hay)), needle)
       ELSE <<Head(hay)>> \o ReplaceAll(Tail(hay), needle)

\* The replacement function: the lambda applied to the match m.
Replacement(text, m) ==
  ReplaceAll(Slice(text, m.start, m.end), Slice(text, m.cap, m.end))

RECURSIVE SubMatches(_, _, _, _)
\* The outer re.sub: text outside the matches copied, every match replaced
\* by what the lambda returns.
SubMatches(text, ms, last_idx, out) ==
  IF ms = <<>> THEN out \o Slice(text, last_idx, Len(text))
  ELSE SubMatches(text, Tail(ms), Head(ms).end,
                  out \o Slice(text, last_idx, Head(ms).start)
                      \o Replacement(text, Head(ms)))

\* Pattern step 7 of _mask_patterns.
mask_for_with(text) == SubMatches(text, Matches(text, 0), 0, <<>>)

\* The words the texts of the model are written with.  They hold letters
\* and "&" only, so pattern steps 1 to 6 of _mask_patterns (which need "@",
\* ".", a digit or one of ":-=") match nowhere in them and leave the text
\* to step 7 as it was given.
Vocabulary ==
  {<<"p", "r", "o", "j", "e", "c", "t">>,
   <<"C", "l", "i", "e", "n", "t">>,
   <<"f", "o", "r">>,
   <<"W", "I", "T", "H">>,
   <<"A", "c", "m", "e">>,
   <<"a", "c", "m", "e">>,
   <<"R", "&", "D">>,
   <<"x">>}

RECURSIVE JoinWords(_)
\* The words written one after the other, a space between two of them.
JoinWords(ws) ==
  IF ws = <<>> THEN <<>>
  ELSE IF Len(ws) = 1 THEN ws[1]
  ELSE ws[1] \o <<" ">> \o JoinWords(Tail(ws))

\* _mask_patterns on a text of these words.
_mask_patterns(text) == mask_for_with(text)

VARIABLES
  spans,     \* the span list handed to _apply_span_masks, in discovery order
  merged,    \* the merged spans it replaced
  masked,    \* its return value
  mpc,       \* "input" while the list is gathered, "done" after the call
  listed,    \* the file list F a manifest is built from
  altered,   \* F with the etag of one file changed
  verdict,   \* manifests_equal of F with itself and of F with the altered F
  cpc,       \* "input" while F is gathered, "compared" after the comparison
  disk,      \* PERSIST_DIR: the directory of every hub name
  qa,                  \* st.session_state.qa
  current_cache_name,  \* st.session_state.current_cache_name
  chat_history,        \* st.session_state.chat_history
  remote,    \* the files the SharePoint link lists now
  autosync,  \* the "Enable Auto-Sync" checkbox as the user has set it
  loop,      \* None, or Some of the locals of the running auto-sync loop
  last,      \* the hub and the outcome the last handler reported
  phrase,    \* the words of the text handed to _mask_patterns
  patterned, \* its return value
  ppc        \* "input" while the text is written, "done" after the call

maskVars == <<spans, merged, masked, mpc>>
manVars == <<listed, altered, verdict, cpc>>
patVars == <<phrase, patterned, ppc>>
sessVars == <<qa, current_cache_name, chat_history>>
sysVars == <<disk, sessVars, remote, autosync, loop, last>>

vars == <<maskVars, manVars, patVars, sysVars>>

MaskInit ==
  /\ spans = <<>>
  /\ merged = <<>>
  /\ masked = <<>>
  /\ mpc = "input"

ManInit ==
  /\ listed = <<>>
  /\ altered = <<>>
  /\ verdict = [same |-> TRUE, changed |-> TRUE]
  /\ cpc = "input"

\* app.py lines 27-38 and 111: the session defaults and an empty
\* PERSIST_DIR.
SysInit ==
  /\ disk = [h \in Hubs |-> NoDir]
  /\ qa = None
  /\ current_cache_name = None
  /\ chat_history = <<>>
  /\ remote \in RemoteLists
  /\ autosync = FALSE
  /\ loop = None
  /\ last = Report("-", "start")

PatInit ==
  /\ phrase = <<>>
  /\ patterned = <<>>
  /\ ppc = "input"

Init == MaskInit /\ ManInit /\ PatInit /\ SysInit

\* The pure functions are exercised with the session left at rest.
InitAtRest == Init /\ remote = <<[id |-> "f1", etag |-> "e1"]>>

\* ------------------------------------------------------------------------
\* SpecMask
\* ------------------------------------------------------------------------

\* The recognizer reports one more entity span.
DiscoverSpan ==
  /\ mpc = "input"
  /\ Len(spans) < MaxSpans
  /\ \E s \in SpanSet : spans' = Append(spans, s)
  /\ UNCHANGED <<merged, masked, mpc, manVars, patVars, sysVars>>

\* _apply_span_masks(text, spans)
ApplySpanMasks ==
  /\ mpc = "input"
  /\ merged' = MergeSpans(spans)
  /\ masked' = _apply_span_masks(Text, spans)
  /\ mpc' = "done"
  /\ UNCHANGED <<spans, manVars, patVars, sysVars>>

NextMask == DiscoverSpan \/ ApplySpanMasks
SpecMask == InitAtRest /\ [][NextMask]_vars

\* ------------------------------------------------------------------------
\* SpecManifest
\* ------------------------------------------------------------------------

\* The remote source lists one more file; ids may repeat.
ListFile ==
  /\ cpc = "input"
  /\ Len(listed) < MaxFiles
  /\ \E f \in FileSet : listed' = Append(listed, f)
  /\ UNCHANGED <<altered, verdict, cpc, maskVars, patVars, sysVars>>

\* One file of F gets another fingerprint and the two manifests are
\* compared.
CompareManifests ==
  /\ cpc = "input"
  /\ \E i \in 1..Len(listed) : \E e \in Etags \ {listed[i].etag} :
       /\ altered' = WithEtag(listed, i, e)
       /\ verdict' =
            [same |-> manifests_equal(build_manifest(listed),
                                      build_manifest(listed)),
             changed |-> manifests_equal(build_manifest(listed),
                                         build_manifest(altered'))]
  /\ cpc' = "compared"
  /\ UNCHANGED <<listed, maskVars, patVars, sysVars>>

NextManifest == ListFile \/ CompareManifests
SpecManifest == InitAtRest /\ [][NextManifest]_vars

\* ------------------------------------------------------------------------
\* SpecPattern
\* ------------------------------------------------------------------------

\* One more word of the text is written.
WriteWord ==
  /\ ppc = "input"
  /\ Len(phrase) < MaxWords
  /\ \E w \in Vocabulary : phrase' = Append(phrase, w)
  /\ UNCHANGED <<patterned, ppc, maskVars, manVars, sysVars>>

\* _mask_patterns(text)
MaskPatterns ==
  /\ ppc = "input"
  /\ patterned' = _mask_patterns(JoinWords(phrase))
  /\ ppc' = "done"
  /\ UNCHANGED <<phrase, maskVars, manVars, sysVars>>

NextPattern == WriteWord \/ MaskPatterns
SpecPattern == InitAtRest /\ [][NextPattern]_vars

\* ------------------------------------------------------------------------
\* Spec: the handlers of one session.  A handler runs only when the script
\* is not inside the auto-sync loop, which never returns to the page.
\* ------------------------------------------------------------------------

Session == [qa |-> qa, name |-> current_cache_name]

SetSession(sess) ==
  /\ qa' = sess.qa
  /\ current_cache_name' = sess.name

\* page_settings, "Process & Save to Memory" with an uploaded document and
\* a hub name.
UploadAndSave(name, u, fate) ==
  /\ loop = None
  /\ LET text == UploadText(u)
         ok == BuildOk(fate)
         stop == fate
     IN
     IF text = <<>>
     THEN /\ last' = Report(name, "no_text")
          /\ UNCHANGED <<disk, sessVars>>
     ELSE /\ disk' = [disk EXCEPT ![name] = RebuildDir(@, text, ok, stop)]
          /\ SetSession(RebuildSession(Session, name, text, ok, stop))
          /\ last' = Report(name, RebuildResult(text, ok, stop))
          /\ UNCHANGED chat_history
  /\ UNCHANGED <<remote, autosync, loop, maskVars, manVars, patVars>>

\* render_header: another hub is picked in the header's selectbox, which
\* offers the directories list_caches has just found; the transcript is
\* emptied when the hub was loaded.
SelectHub(name, engineOk) ==
  /\ loop = None
  /\ disk[name].dir
  /\ current_cache_name # Some(name)
  /\ disk' = [disk EXCEPT ![name] = LoadDir(@, engineOk)]
  /\ SetSession(LoadSession(Session, name, disk[name], engineOk))
  /\ chat_history' =
       IF LoadReturns(disk[name], engineOk) THEN <<>> ELSE chat_history
  /\ last' = Report(name, LoadResult(disk[name], engineOk))
  /\ UNCHANGED <<remote, autosync, loop, maskVars, manVars, patVars>>

\* page_settings, "Load Cache into Memory": load_cache_into_memory(name).
\* The name is any hub name: the directory the selectbox listed may be gone
\* by the time load_vectorstore tests for it.
LoadCache(name, engineOk) ==
  /\ loop = None
  /\ disk' = [disk EXCEPT ![name] = LoadDir(@, engineOk)]
  /\ SetSession(LoadSession(Session, name, disk[name], engineOk))
  /\ last' = Report(name, LoadResult(disk[name], engineOk))
  /\ UNCHANGED <<chat_history, remote, autosync, loop,
                 maskVars, manVars, patVars>>

\* page_settings, "Clear Memory".
ClearMemory ==
  /\ loop = None
  /\ qa' = None
  /\ chat_history' = <<>>
  /\ current_cache_name' = None
  /\ last' = Report("-", "cleared")
  /\ UNCHANGED <<disk, remote, autosync, loop, maskVars, manVars, patVars>>

\* page_chat with a query typed in.
AskQuery(providerOk) ==
  /\ loop = None
  /\ Len(chat_history) < MaxTurns
  /\ chat_history' = QueryHistory(chat_history, qa, "q", providerOk)
  /\ last' = Report("-", QueryResult(qa, providerOk))
  /\ UNCHANGED <<disk, qa, current_cache_name, remote, autosync, loop,
                 maskVars, manVars, patVars>>

\* page_settings, "Load from SharePoint": the initial sync, and the entry
\* into the auto-sync loop when the checkbox is ticked.  With fate
\* "fetch_fails" one of the token, listing and download requests raises.
LoadFromSharePoint(name, fate) ==
  /\ loop = None
  /\ IF fate = "fetch_fails"
     THEN /\ last' = Report(name, "fetch_error")
          /\ UNCHANGED <<disk, sessVars, loop>>
     ELSE LET files == remote
              ok == BuildOk(fate)
              stop == fate
              text == download_and_extract_text(files)
              manifest == build_manifest(files)
          IN /\ disk' = [disk EXCEPT ![name] =
                           WriteManifest(RebuildDir(@, text, ok, stop),
                                         manifest)]
             /\ SetSession(RebuildSession(Session, name, text, ok, stop))
             /\ loop' = IF autosync
                        THEN Some([hub |-> name, manifest |-> manifest])
                        ELSE None
             /\ last' = Report(name, RebuildResult(text, ok, stop))
             /\ UNCHANGED chat_history
  /\ UNCHANGED <<remote, autosync, maskVars, manVars, patVars>>

\* One pass of "while autosync": sleep, list the remote files, compare the
\* manifests and rebuild on a difference.  The loop tests its local
\* variable, which nothing in the loop assigns; it ends when a request
\* raises ("fetch_fails" while listing, "download_fails" while downloading
\* the changed files), or when Streamlit stops the script at an st.* call
\* because the user has changed a widget (halted tells whether it does).
AutoSyncIteration(fate, halted) ==
  /\ loop # None
  /\ LET name == loop[1].hub
         manifest == loop[1].manifest
         new_files == remote
         new_manifest == build_manifest(new_files)
         new_text == download_and_extract_text(new_files)
         halts == halted /\ ~autosync
         ok == BuildOk(fate)
         stop == fate
     IN IF fate = "fetch_fails"
        THEN /\ loop' = None
             /\ last' = Report(name, "fetch_error")
             /\ UNCHANGED <<disk, sessVars>>
        ELSE IF manifests_equal(manifest, new_manifest)
        THEN /\ loop' = IF halts THEN None ELSE loop
             /\ last' = Report(name, "no_change")
             /\ UNCHANGED <<disk, sessVars>>
        ELSE IF halts
        THEN /\ loop' = None
             /\ last' = Report(name, "halted")
             /\ UNCHANGED <<disk, sessVars>>
        ELSE IF fate = "download_fails"
        THEN /\ loop' = None
             /\ last' = Report(name, "fetch_error")
             /\ UNCHANGED <<disk, sessVars>>
        ELSE /\ disk' = [disk EXCEPT ![name] =
                           WriteManifest(RebuildDir(@, new_text, ok, stop),
                                         new_manifest)]
             /\ SetSession(RebuildSession(Session, name, new_text, ok, stop))
             /\ loop' = Some([hub |-> name, manifest |-> new_manifest])
             /\ last' = Report(name, RebuildResult(new_text, ok, stop))
             /\ UNCHANGED chat_history
  /\ UNCHANGED <<remote, autosync, maskVars, manVars, patVars>>

\* The user ticks or unticks "Enable Auto-Sync".
ToggleAutosync ==
  /\ autosync' = ~autosync
  /\ UNCHANGED <<disk, sessVars, remote, loop, last,
                 maskVars, manVars, patVars>>

\* The remote file is modified: the link lists another revision.
RemoteChange ==
  /\ \E F \in RemoteLists \ {remote} : remote' = F
  /\ UNCHANGED <<disk, sessVars, autosync, loop, last,
                 maskVars, manVars, patVars>>

UploadStep ==
  \E name \in Hubs, u \in Uploads, fate \in BuildFates :
    UploadAndSave(name, u, fate)

SelectStep == \E name \in Hubs, engineOk \in BOOLEAN : SelectHub(name, engineOk)

LoadStep == \E name \in Hubs, engineOk \in BOOLEAN : LoadCache(name, engineOk)

QueryStep == \E providerOk \in BOOLEAN : AskQuery(providerOk)

SyncStep ==
  \E name \in Hubs, fate \in SyncFates : LoadFromSharePoint(name, fate)

AutoSyncStep ==
  \E fate \in SyncFates \cup {"download_fails"}, halted \in BOOLEAN :
    AutoSyncIteration(fate, halted)

Next ==
  \/ UploadStep
  \/ SelectStep
  \/ LoadStep
  \/ ClearMemory
  \/ QueryStep
  \/ SyncStep
  \/ AutoSyncStep
  \/ ToggleAutosync
  \/ RemoteChange

Spec == Init /\ [][Next]_vars

\* ------------------------------------------------------------------------
\* Properties of _apply_span_masks
\* ------------------------------------------------------------------------

\* The merged spans that contain the input span s.
MergedAround(s) ==
  {i \in 1..Len(merged) :
     merged[i].start <= s.start /\ s.end <= merged[i].end}

\* C1: after _apply_span_masks, the merged spans taken in order are strictly
\* separated (each end is less than the next start) and every input span
\* lies inside exactly one merged span.
C1_MergedSpansDisjoint ==
  mpc = "done" =>
    /\ \A i \in 1..(Len(merged) - 1) : merged[i].end < merged[i + 1].start
    /\ \A k \in 1..Len(spans) : Cardinality(MergedAround(spans[k])) = 1

\* Three spans were given, two of them were merged and a second merged span
\* follows the first.
C1_Witness ==
  /\ mpc = "done"
  /\ Len(spans) = 3
  /\ Len(merged) = 2
  /\ \E k \in 1..3 : spans[k].end > spans[k].start

\* The input spans (by position in the input list) that lie inside the
\* i-th merged span: the group that was merged into it.
GroupOf(i) ==
  {k \in 1..Len(spans) :
     merged[i].start <= spans[k].start /\ spans[k].end <= merged[i].end}

\* Input span j comes before input span k in (start, end) order; spans of
\* equal key are taken in the order of the input list.
EarlierSpan(j, k) ==
  \/ KeyLess(spans[j], spans[k])
  \/ (~KeyLess(spans[k], spans[j]) /\ j < k)

\* The input spans of highest priority in the group of the i-th merged span.
TopOf(i) ==
  {k \in GroupOf(i) :
     \A j \in GroupOf(i) :
       label_priority(spans[j].label) <= label_priority(spans[k].label)}

\* C11: every merged span covers from the smallest start to the largest end
\* of its group and carries the label of the earliest span, in (start, end)
\* order, among the spans of highest priority in the group, on the scale
\* PERSON 4 > ORG 3 > GPE 2 = LOC 2 > NORP 1 = PRODUCT 1 > any other label 0.
C11_MergedSpanCoversGroupAndKeepsTopLabel ==
  /\ label_priority("PERSON") = 4 /\ label_priority("ORG") = 3
  /\ label_priority("GPE") = 2 /\ label_priority("LOC") = 2
  /\ label_priority("NORP") = 1 /\ label_priority("PRODUCT") = 1
  /\ label_priority("DATE") = 0
  /\ mpc = "done" =>
       \A i \in 1..Len(merged) :
         /\ GroupOf(i) # {}
         /\ \E k \in GroupOf(i) : merged[i].start = spans[k].start
         /\ \A k \in GroupOf(i) : merged[i].start <= spans[k].start
         /\ \E k \in GroupOf(i) : merged[i].end = spans[k].end
         /\ \A k \in GroupOf(i) : spans[k].end <= merged[i].end
         /\ \E k \in TopOf(i) :
              /\ merged[i].label = spans[k].label
              /\ \A j \in TopOf(i) \ {k} : EarlierSpan(k, j)

\* Three spans were merged into one; two of them share the highest priority
\* of the group under different labels and the third has a lower priority,
\* and the span of highest priority that sorts first is not the first of
\* the input list.
C11_Witness ==
  /\ mpc = "done"
  /\ Len(spans) = 3
  /\ Len(merged) = 1
  /\ Cardinality(TopOf(1)) = 2
  /\ \E j, k \in TopOf(1) :
       /\ spans[j].label # spans[k].label
       /\ j < k
       /\ EarlierSpan(k, j)
       /\ merged[1].label = spans[k].label

\* The span lists that are permutations of L.
PermutationsOf(L) ==
  IF L = <<>> THEN {<<>>}
  ELSE {[i \in 1..Len(L) |-> L[p[i]]] : p \in Permutations(1..Len(L))}

\* C2: the output of _apply_span_masks does not depend on the order of the
\* span list: every permutation of the list gives the same string.
C2_OrderIndependent ==
  mpc = "done" =>
    \A P \in PermutationsOf(spans) : _apply_span_masks(Text, P) = masked

\* ------------------------------------------------------------------------
\* Properties of build_manifest and manifests_equal
\* ------------------------------------------------------------------------

\* C7: a manifest equals itself, and changing the fingerprint of any one
\* file of F (ids not assumed distinct) makes the manifests unequal.
C7_FingerprintChangeDetected ==
  cpc = "compared" => verdict.same /\ ~verdict.changed

\* ------------------------------------------------------------------------
\* Properties of the hub lifecycle
\* ------------------------------------------------------------------------

\* ------------------------------------------------------------------------
\* Properties of pattern step 7 of _mask_patterns
\* ------------------------------------------------------------------------

\* The text handed to _mask_patterns and the matches of step 7 in it.
PatternText == JoinWords(phrase)
PatternMatches == Matches(PatternText, 0)

\* The positions of the match m at which a word of the captured phrase
\* begins.
CapturedWordStarts(m) ==
  {p \in m.cap..(m.end - 1) : p = m.cap \/ IsSpace(PatternText[p])}

\* C12: step 7 replaces the phrase after "<keyword> for|with" only if each
\* of its words begins with an uppercase letter; a word that begins with a
\* lowercase letter is never part of the phrase it masks.
C12_OnlyCapitalizedPhraseMasked ==
  ppc = "done" =>
    \A i \in 1..Len(PatternMatches) :
      \A p \in CapturedWordStarts(PatternMatches[i]) :
        IsUpper(PatternText[p + 1])

\* C13: for every match of step 7 the text put in its place is the matched
\* text with only the captured phrase, at the end of the match, replaced by
\* [ENTITY]: the keyword and for/with are copied unchanged.
C13_KeywordPhraseKept ==
  ppc = "done" =>
    \A i \in 1..Len(PatternMatches) :
      LET m == PatternMatches[i] IN
        Replacement(PatternText, m)
          = Slice(PatternText, m.start, m.cap) \o <<"[ENTITY]">>


\* The index files of a hub directory.
PersistedIndex(d) == [faiss |-> d.faiss, pkl |-> d.pkl]

\* The step is a handler that called rebuild_vectorstore_and_save for name.
RebuildAttempt(name, fate) ==
  \/ \E u \in Uploads : UploadText(u) # <<>> /\ UploadAndSave(name, u, fate)
  \/ LoadFromSharePoint(name, fate)
  \/ /\ loop # None
     /\ loop[1].hub = name
     /\ ~manifests_equal(loop[1].manifest, build_manifest(remote))
     /\ \E halted \in BOOLEAN :
          ~(halted /\ ~autosync) /\ AutoSyncIteration(fate, halted)

\* The step is a load_cache_into_memory(name).
LoadAttempt(name) ==
  \E engineOk \in BOOLEAN : LoadCache(name, engineOk) \/ SelectHub(name, engineOk)

\* C3: a rebuild whose build fails leaves the index persisted under every
\* hub name, the rebuilt one included, exactly as it was.
C3_FailedRebuildKeepsIndex ==
  [][\A name \in Hubs :
       (/\ disk[name].dir
        /\ last' = Report(name, "build_failed")
        /\ RebuildAttempt(name, "build_fails"))
         => \A h \in Hubs :
              PersistedIndex(disk'[h]) = PersistedIndex(disk[h])]_vars

\* A rebuild has just failed under a hub name that holds a complete index.
C3_Witness ==
  \E h \in Hubs :
    /\ last = Report(h, "build_failed")
    /\ disk[h].faiss # None
    /\ disk[h].pkl = disk[h].faiss

\* C4: whatever saves came before, complete or stopped part-way, a load
\* finds no directory or loads a complete index: it never raises on a
\* directory without its files and never loads files of two different
\* saves.
C4_SaveAtomicForReaders ==
  [][\A name \in Hubs :
       (last'.hub = name /\ LoadAttempt(name))
         => /\ last'.result # "load_raised"
            /\ last'.result = "loaded"
                 => qa'[1].index.faiss = qa'[1].index.pkl]_vars

\* C5: once auto-sync is unticked, the loop waiting at the top of its sleep
\* interval makes no further pass (no remote check, no rebuild).
C5_LoopStopsWhenDisabled ==
  [][(loop # None /\ ~autosync) => ~AutoSyncStep]_vars

\* The step is a pass of the auto-sync loop that compared the manifests and
\* was neither stopped by Streamlit nor ended by a failing request.
ComparingPass ==
  /\ loop # None
  /\ \E fate \in BuildFates, halted \in BOOLEAN :
       ~(halted /\ ~autosync) /\ AutoSyncIteration(fate, halted)

\* C6: a pass of the auto-sync loop changes nothing when the manifests are
\* equal; when they differ, the hub holds the complete index of the new
\* file set and the new manifest, and the new manifest is the baseline.
C6_PassRebuildsOnDifference ==
  [][ComparingPass =>
       LET name == loop[1].hub
           new_manifest == build_manifest(remote)
       IN IF manifests_equal(loop[1].manifest, new_manifest)
          THEN disk' = disk /\ UNCHANGED sessVars /\ loop' = loop
          ELSE /\ disk'[name] =
                    [dir |-> TRUE,
                     faiss |-> Some(download_and_extract_text(remote)),
                     pkl |-> Some(download_and_extract_text(remote)),
                     manifest |-> Some(new_manifest)]
               /\ loop' = Some([hub |-> name, manifest |-> new_manifest])]_vars

\* C8: a query asked while no hub is loaded fails before the chain is
\* called, and the transcript is left as it was.
C8_QueryWithoutHubFails ==
  [][\A providerOk \in BOOLEAN :
       (qa = None /\ AskQuery(providerOk))
         => /\ last'.result = "no_engine"
            /\ chat_history' = chat_history]_vars

\* A query has just failed for want of an engine, with a hub on disk.
C8_Witness ==
  /\ last.result = "no_engine"
  /\ qa = None
  /\ \E h \in Hubs : load_vectorstore(disk[h]).value # None

\* C9: load_cache_into_memory of a name without a directory reports
\* "not found" without raising, and leaves the session and the disk alone.
C9_LoadOfMissingHub ==
  [][\A name \in Hubs :
       (~disk[name].dir /\ last'.hub = name /\ LoadAttempt(name))
         => /\ last' = Report(name, "not_found")
            /\ UNCHANGED <<qa, current_cache_name, disk>>]_vars

\* A missing hub has just been asked for while another hub is loaded.
C9_Witness ==
  /\ last.result = "not_found"
  /\ ~disk[last.hub].dir
  /\ qa # None

\* C10: qa is unset exactly when current_cache_name is; when set, the
\* engine was built or loaded under current_cache_name, and right after a
\* successful rebuild or load it is the engine over that hub's index.
C10_SingleActiveHub ==
  /\ qa = None <=> current_cache_name = None
  /\ qa # None => qa[1].hub = current_cache_name[1]
  /\ last.result \in {"saved", "loaded"}
       => /\ qa # None
          /\ qa[1].hub = last.hub
          /\ PersistedIndex(disk[last.hub]) =
               [faiss |-> Some(qa[1].index.faiss),
                pkl |-> Some(qa[1].index.pkl)]

\* Hub h2 has just been loaded while hub h1 is on disk too.
C10_Witness ==
  /\ last = Report("h2", "loaded")
  /\ current_cache_name = Some("h2")
  /\ load_vectorstore(disk["h1"]).value # None

\* The step is a pass of a remote sync for the hub name: the initial sync
\* of "Load from SharePoint" or a pass of its auto-sync loop.
SyncPass(name) ==
  \/ \E fate \in SyncFates : LoadFromSharePoint(name, fate)
  \/ /\ loop # None
     /\ loop[1].hub = name
     /\ \E fate \in SyncFates \cup {"download_fails"}, halted \in BOOLEAN :
          AutoSyncIteration(fate, halted)

\* The manifest.json of the directory d, when there is one, lists the files
\* whose text the index persisted in d was built from.
ManifestDescribesIndex(d) ==
  d.manifest # None =>
    PersistedIndex(d) =
      [faiss |-> Some(download_and_extract_text(d.manifest[1].files)),
       pkl |-> Some(download_and_extract_text(d.manifest[1].files))]

\* C14: after an initial sync or a pass of the auto-sync loop for a hub,
\* the hub's manifest.json lists exactly the files, with their fingerprints,
\* from which the index persisted under the hub's name was built, and the
\* baseline the loop compares against is the manifest of that index.
C14_ManifestDescribesPersistedIndex ==
  [][\A name \in Hubs :
       (last'.hub = name /\ SyncPass(name))
         => /\ ManifestDescribesIndex(disk'[name])
            /\ loop' # None =>
                 PersistedIndex(disk'[name]) =
                   [faiss |-> Some(download_and_extract_text(
                                     loop'[1].manifest.files)),
                    pkl |-> Some(download_and_extract_text(
                                   loop'[1].manifest.files))]]_vars

\* C15: every name list_caches returns is loadable: its directory holds a
\* complete persisted index, so load_cache_into_memory on it returns True
\* when the engine can be built; no directory holds a manifest only.
C15_ListedHubsLoadable ==
  \A name \in list_caches(disk) :
    /\ load_vectorstore(disk[name]).value # None
    /\ LoadReturns(disk[name], TRUE)

====
